---- MODULE Spec2Model ----
(***************************************************************************)
(* Model of mqtt-bridge-v1.js: the Tinkercad serial <-> MQTT bridge.       *)
(*                                                                         *)
(* Strings are sequences of one-character strings, so that split, trim     *)
(* and join are computed character by character as the JavaScript does.   *)
(* The browser page, the DOM of the editor frame and the bus are the       *)
(* environment; the poll callback and the "message" handler are the        *)
(* program.  Every await of the source is a suspension point: the code     *)
(* between two awaits is one atomic action.                                *)
(***************************************************************************)
EXTENDS Naturals, Sequences, FiniteSets

VARIABLES
    argv,        \* process.argv after the node and script entries
    setup,       \* what startup did: [exit, broker, browser]
    proc,        \* "boot" | "launching" | "running" | "exited" | "crashed"
    page,        \* the document: [body, innerText]
    lastData,    \* let lastData (line 79)
    ticks,       \* the poll callbacks started so far, in start order
    published,   \* the client.publish calls so far, in call order
    frames,      \* page.frames(): the URLs of the session's frames
    elements,    \* the elements of the editor frame, in document order
    focus,       \* index of the focused element of the editor frame, 0: none
    selAll,      \* the focused element's whole content is selected
    handlers,    \* the "message" handler runs started so far, in start order
    submitted    \* the Enter presses so far: who pressed, on what content

vars == <<argv, setup, proc, page, lastData, ticks, published,
          frames, elements, focus, selAll, handlers, submitted>>

pollVars == <<page, lastData, ticks, published>>
domVars == <<frames, elements, focus, selAll>>
inVars == <<handlers, submitted>>

(***************************************************************************)
(* Bounds of the model.                                                    *)
(***************************************************************************)
MaxTicks == 3
MaxEvents == 2
MaxMixed == 2
MaxPad == 2

(***************************************************************************)
(* Program constants.                                                      *)
(***************************************************************************)
KeepLines == 10

\* A faulty variant of ClickOptions: click() without options, a single click.
ClickOptionsDefault == [clickCount |-> 1]

\* The options of the click of line 134.
ClickOptions == [clickCount |-> 3]

(***************************************************************************)
(* JavaScript string operations.                                           *)
(***************************************************************************)
\* The characters the model's alphabet shares with the regex class \s.
IsWs(c) == c \in {" ", "\t", "\r", "\n"}

RECURSIVE SplitLinesFrom(_, _, _, _)
SplitLinesFrom(s, i, cur, acc) ==
    IF i > Len(s) THEN Append(acc, cur)
    ELSE IF s[i] = "\n" THEN SplitLinesFrom(s, i + 1, <<>>, Append(acc, cur))
    ELSE IF s[i] = "\r" /\ i < Len(s) /\ s[i + 1] = "\n"
         THEN SplitLinesFrom(s, i + 2, <<>>, Append(acc, cur))
    ELSE SplitLinesFrom(s, i + 1, Append(cur, s[i]), acc)

\* text.split(/\r?\n/)
SplitLines(s) == SplitLinesFrom(s, 1, <<>>, <<>>)

\* A faulty variant of SliceLast: an off-by-one slice(-11).
SliceLastOffByOne(seq, n) ==
    IF Len(seq) <= n + 1 THEN seq
    ELSE SubSeq(seq, Len(seq) - n, Len(seq))

\* seq.slice(-n)
SliceLast(seq, n) ==
    IF Len(seq) <= n THEN seq
    ELSE SubSeq(seq, Len(seq) - n + 1, Len(seq))

RECURSIVE TrimStart(_)
TrimStart(s) ==
    IF s /= <<>> /\ IsWs(Head(s)) THEN TrimStart(Tail(s)) ELSE s

RECURSIVE TrimEnd(_)
TrimEnd(s) ==
    IF s /= <<>> /\ IsWs(s[Len(s)]) THEN TrimEnd(SubSeq(s, 1, Len(s) - 1)) ELSE s

\* line.trim()
Trim(s) == TrimEnd(TrimStart(s))

RECURSIVE SplitWsFrom(_, _, _, _)
SplitWsFrom(s, i, cur, acc) ==
    IF i > Len(s) THEN Append(acc, cur)
    ELSE IF IsWs(s[i])
         THEN IF i > 1 /\ IsWs(s[i - 1])
              THEN SplitWsFrom(s, i + 1, cur, acc)
              ELSE SplitWsFrom(s, i + 1, <<>>, Append(acc, cur))
    ELSE SplitWsFrom(s, i + 1, Append(cur, s[i]), acc)

\* s.split(/\s+/): a run of whitespace is one separator; a separator at
\* either end leaves an empty string there, as in JavaScript.
SplitWs(s) == SplitWsFrom(s, 1, <<>>, <<>>)

RECURSIVE Join(_, _)
\* parts.join(sep)
Join(parts, sep) ==
    IF parts = <<>> THEN <<>>
    ELSE IF Len(parts) = 1 THEN parts[1]
    ELSE parts[1] \o sep \o Join(Tail(parts), sep)

(***************************************************************************)
(* The poll callback's parse of one snapshot (lines 90-103).               *)
(***************************************************************************)
\* The lines the for loop visits.
RetainedLines(text) == SliceLast(SplitLines(text), KeepLines)

\* How many leading lines of the snapshot the slice left out: a retained
\* line i is line LineOffset(text) + i of the snapshot.
LineOffset(text) == Len(SplitLines(text)) - Len(RetainedLines(text))

\* A faulty variant of ParseLine: the payload is the rest joined without spaces.
ParseLineNoSpace(line) ==
    IF Trim(line) = <<>> THEN <<>>
    ELSE LET parts == SplitWs(Trim(line))
         IN  IF Len(parts) < 2 THEN <<>>
             ELSE << [topic |-> parts[1], payload |-> Join(Tail(parts), <<>>)] >>

\* One iteration of the loop body: the publish call the line leads to, as a
\* sequence of zero or one [topic, payload].
ParseLine(line) ==
    IF Trim(line) = <<>> THEN <<>>
    ELSE LET parts == SplitWs(Trim(line))
         IN  IF Len(parts) < 2 THEN <<>>
             ELSE << [topic |-> parts[1], payload |-> Join(Tail(parts), <<" ">>)] >>

\* A faulty variant of CallsFrom: a line that gives no record ends the loop.
RECURSIVE CallsFromUntilBad(_, _, _)
CallsFromUntilBad(lines, i, off) ==
    IF i > Len(lines) THEN <<>>
    ELSE LET r == ParseLine(lines[i])
         IN  IF r = <<>> THEN <<>>
             ELSE << [topic |-> r[1].topic, payload |-> r[1].payload, line |-> off + i] >>
                  \o CallsFromUntilBad(lines, i + 1, off)

\* The loop of lines 91-103 from line i on: continue skips a line that is
\* blank or has a single token, and the loop goes on with the next one.
RECURSIVE CallsFrom(_, _, _)
CallsFrom(lines, i, off) ==
    IF i > Len(lines) THEN <<>>
    ELSE LET r == ParseLine(lines[i])
         IN  (IF r = <<>> THEN <<>>
              ELSE << [topic |-> r[1].topic, payload |-> r[1].payload, line |-> off + i] >>)
             \o CallsFrom(lines, i + 1, off)

\* The publish calls of a whole pass of the loop over a snapshot, in order,
\* each with the number of the snapshot line it comes from.
PublishCalls(text) == CallsFrom(RetainedLines(text), 1, LineOffset(text))

\* What goes on the bus: the call without its line number.
Message(call) == [topic |-> call.topic, payload |-> call.payload]

Messages(calls) == [i \in 1..Len(calls) |-> Message(calls[i])]

(***************************************************************************)
(* The documents the browser shows.                                        *)
(***************************************************************************)
LnA == <<"a", " ", "1">>
LnB == <<"b", " ", " ", "2", "\t", "c", " ">>
LnC == <<"\t", "c", " ", "3">>
LnOld == <<"z", " ", "9">>
LnBad == <<"x">>
LnBlank == <<" ">>
LnSensor == <<"s", "e", "n", "s", "o", "r", "/", "t", "e", "m", "p", "e", "r",
              "a", "t", "u", "r", "e", " ", "2", "3", ".", "5", " ", "C">>

LF == <<"\n">>
CRLF == <<"\r", "\n">>

\* The serial monitor's text after the given lines were printed.
JoinLines(lines, sep) == Join(lines, sep)

\* The texts of the full system: the monitor before any output, after one
\* line, and after a second line was appended.
SmallTexts == { <<>>, LnA, JoinLines(<<LnA, LnB>>, LF) }

PadLines(n) == [i \in 1..n |-> LnOld]

Tails ==
    LET L == {LnA, LnB, LnC, LnBad, LnBlank}
    IN  {<<l>> : l \in L} \cup {<<l, m>> : l \in L, m \in L}

\* Scrollback of KeepLines - 2 .. KeepLines - 2 + MaxPad old lines, or none,
\* followed by one or two new lines, under either newline convention.
RichTexts ==
    { JoinLines(PadLines(n) \o tail, sep) :
        n \in {0} \cup {KeepLines - 2 + k : k \in 0..MaxPad},
        tail \in Tails, sep \in {LF, CRLF} }
    \cup {LnSensor}

Doc(text) == [body |-> TRUE, innerText |-> text]
NoBody == [body |-> FALSE, innerText |-> <<>>]

SmallPages == {Doc(t) : t \in SmallTexts} \cup {NoBody}
RichPages == {Doc(t) : t \in RichTexts}

\* The function page.evaluate runs in the document (lines 83-85).
Evaluate(p) == IF p.body /\ p.innerText /= <<>> THEN p.innerText ELSE <<>>

(***************************************************************************)
(* Startup (lines 23-27 and 33-79).                                        *)
(***************************************************************************)
CircuitUrl == "https://www.tinkercad.com/things/x"

ArgVectors == { <<>>, <<CircuitUrl>> }

\* The command lines of the startup specification: no argument, an empty
\* URL, the URL alone, with a host, with a host and a port.
StartupArgs ==
    ArgVectors \cup { <<"">>, <<CircuitUrl, "broker.lan">>,
                      <<CircuitUrl, "broker.lan", "8883">> }

Running == proc = "running"

\* The bound on the runs of both kinds together: a callback of one kind may
\* start beside runs of the other kind while fewer than MaxMixed runs have
\* started altogether.
RoomFor(others) == others /= <<>> => Len(ticks) + Len(handlers) < MaxMixed

\* if (!URL): the argument is absent or the empty string (line 24).
NoUrl(args) == Len(args) < 1 \/ args[1] = ""

\* A destructuring default: it stands in for an absent element (line 23).
ArgOr(args, i, default) == IF Len(args) >= i THEN args[i] ELSE default

\* A faulty variant of BrokerOf: the defaults of host and port are swapped.
BrokerOfSwapped(args) ==
    <<ArgOr(args, 2, "1883"), ArgOr(args, 3, "localhost")>>

\* BROKER and PORT of line 23, the host and port of mqtt.connect (line 47).
BrokerOf(args) == <<ArgOr(args, 2, "localhost"), ArgOr(args, 3, "1883")>>

NotStarted == [exit |-> <<>>, broker |-> <<>>, browser |-> FALSE]

\* Lines 23-58: without a URL the process exits with status 1; with one it
\* connects to the broker and asks for the browser.
Startup ==
    /\ proc = "boot"
    /\ IF NoUrl(argv)
       THEN /\ proc' = "exited"
            /\ setup' = [setup EXCEPT !.exit = <<1>>]
       ELSE /\ proc' = "launching"
            /\ setup' = [setup EXCEPT !.broker = BrokerOf(argv)]
    /\ UNCHANGED <<argv, pollVars, domVars, inVars>>

\* Lines 58-112: the browser is up and the page loaded; the timer and the
\* "message" handler are registered.
Launch ==
    /\ proc = "launching"
    /\ proc' = "running"
    /\ setup' = [setup EXCEPT !.browser = TRUE]
    /\ UNCHANGED <<argv, pollVars, domVars, inVars>>

(***************************************************************************)
(* The poll callback (lines 81-108).                                       *)
(***************************************************************************)
NewTick == [pc |-> "evaluate", text |-> <<>>, prev |-> <<>>, calls |-> <<>>,
            scanned |-> 0, err |-> "none"]

\* The timer starts a callback every period, whether or not the earlier
\* ones have returned from their await.
TimerFire ==
    /\ Running
    /\ Len(ticks) < MaxTicks
    /\ RoomFor(handlers)
    /\ ticks' = Append(ticks, NewTick)
    /\ UNCHANGED <<argv, setup, proc, page, lastData, published, domVars, inVars>>

\* The browser answers the evaluate requests of one session in order.
EvaluateTurn(t) ==
    /\ t \in DOMAIN ticks
    /\ ticks[t].pc = "evaluate"
    /\ \A s \in 1..(t - 1) : ticks[s].pc /= "evaluate"

\* A faulty variant of ContinueTurn: a callback resumes as soon as its own
\* text is there, whatever the earlier callbacks are doing.
ContinueTurnAny(t) == t \in DOMAIN ticks

\* The continuations of the awaits run in the order of the answers.
ContinueTurn(t) ==
    /\ t \in DOMAIN ticks
    /\ \A s \in 1..(t - 1) : ticks[s].pc \in {"done", "failed"}

\* The browser runs the function and sends the text back.
EvaluateResolve(t) ==
    /\ Running
    /\ EvaluateTurn(t)
    /\ ticks' = [ticks EXCEPT ![t].pc = "resolved", ![t].text = Evaluate(page)]
    /\ UNCHANGED <<argv, setup, proc, page, lastData, published, domVars, inVars>>

\* A faulty variant of OnPollError: the exception leaves the callback.
OnPollErrorUncaught(p) == "crashed"

\* catch (err) of the poll callback (lines 105-107): log and go on.
OnPollError(p) == p

\* page.evaluate rejects: the callback resumes in its catch block.
EvaluateThrow(t) ==
    /\ Running
    /\ EvaluateTurn(t)
    /\ ContinueTurn(t)
    /\ ticks' = [ticks EXCEPT ![t].pc = "failed", ![t].err = "extract"]
    /\ proc' = OnPollError(proc)
    /\ UNCHANGED <<argv, setup, page, lastData, published, domVars, inVars>>

\* A faulty variant of Changed: the comparison with lastData is lost.
ChangedNoCompare(text, last) == text /= <<>>

\* A faulty variant of Changed: the empty text counts as a change.
ChangedEvenEmpty(text, last) == text /= last

\* The negation of the early return of line 87.
Changed(text, last) == text /= <<>> /\ text /= last

\* A faulty variant of LastDataAfter: lastData is assigned after the loop,
\* so a throwing publish call leaves it as it was.
LastDataAtEnd(text, last, n, total) == IF n = total THEN text ELSE last

\* A faulty variant of LastDataAfter: the assignment is left to a later
\* step, so the step that publishes ends with lastData as it was.
LastDataStale(text, last, n, total) == last

\* lastData at the end of a pass over a changed text of which n of the
\* total publish calls returned: line 88 assigns it before the loop starts.
LastDataAfter(text, last, n, total) == text

\* The callback resumes with the text: the rest of its body runs without
\* suspension.  n is the number of publish calls that return; when n is
\* less than the number of calls of the pass, call n + 1 throws and the
\* catch block ends the callback.
TickContinue(t) ==
    /\ Running
    /\ ContinueTurn(t)
    /\ ticks[t].pc = "resolved"
    /\ IF ~Changed(ticks[t].text, lastData)
       THEN /\ ticks' = [ticks EXCEPT ![t].pc = "done", ![t].prev = lastData]
            /\ UNCHANGED <<lastData, published, proc>>
       ELSE \E calls \in {PublishCalls(ticks[t].text)} :
            \E n \in 0..Len(calls) :
                /\ lastData' = LastDataAfter(ticks[t].text, lastData, n, Len(calls))
                /\ published' = published \o Messages(SubSeq(calls, 1, n))
                /\ ticks' = [ticks EXCEPT
                       ![t].pc = "done",
                       ![t].prev = lastData,
                       ![t].calls = SubSeq(calls, 1, n),
                       ![t].scanned =
                           IF n = Len(calls)
                           THEN Len(RetainedLines(ticks[t].text))
                           ELSE calls[n + 1].line - LineOffset(ticks[t].text),
                       ![t].err = IF n = Len(calls) THEN "none" ELSE "publish"]
                /\ proc' = IF n = Len(calls) THEN proc ELSE OnPollError(proc)
    /\ UNCHANGED <<argv, setup, page, domVars, inVars>>

\* The simulation prints, the user navigates: the document changes.  Only
\* an extraction reads the document, so the changes made while none is
\* pending are those made just before the next one is.
PageChange ==
    /\ Running
    /\ \E t \in DOMAIN ticks : ticks[t].pc = "evaluate"
    /\ \E p \in SmallPages : p /= page /\ page' = p
    /\ UNCHANGED <<argv, setup, proc, lastData, ticks, published, domVars, inVars>>

PollStep ==
    \/ TimerFire
    \/ \E t \in DOMAIN ticks : EvaluateResolve(t)
    \/ \E t \in DOMAIN ticks : EvaluateThrow(t)
    \/ \E t \in DOMAIN ticks : TickContinue(t)

(***************************************************************************)
(* The browser session seen by the "message" handler.                      *)
(***************************************************************************)
MainUrl == <<"t", "/", "t", "h", "i", "n", "g", "s">>
NearUrl == <<"t", "/", "e", "d", "i", "t", "?", "e", "l">>
EditorUrl == <<"t", "/", "e", "d", "i", "t", "e", "l", "?">>

\* The substring of line 122.
EditelPath == <<"/", "e", "d", "i", "t", "e", "l">>

\* s.includes(sub)
Includes(s, sub) ==
    \E i \in 1..Len(s) :
        /\ i + Len(sub) <= Len(s) + 1
        /\ SubSeq(s, i, i + Len(sub) - 1) = sub

IsEditor(url) == Includes(url, EditelPath)

\* A faulty variant of FindEditorFrame: with no match the handler goes on with
\* the last frame instead of returning.
FindFrameOrLast(fs) ==
    IF \E i \in 1..Len(fs) : IsEditor(fs[i])
    THEN CHOOSE i \in 1..Len(fs) :
             IsEditor(fs[i]) /\ \A j \in 1..(i - 1) : ~IsEditor(fs[j])
    ELSE Len(fs)

\* frames.find(f => f.url().includes("/editel")): the index of the first
\* match, 0 for undefined (lines 121-123).
FindEditorFrame(fs) ==
    IF \E i \in 1..Len(fs) : IsEditor(fs[i])
    THEN CHOOSE i \in 1..Len(fs) :
             IsEditor(fs[i]) /\ \A j \in 1..(i - 1) : ~IsEditor(fs[j])
    ELSE 0

ClosedFrames == <<MainUrl, NearUrl>>
OpenFrames == <<MainUrl, EditorUrl>>

TextInput == [tag |-> "input", type |-> "text", value |-> <<"o", "k">>]
TextArea == [tag |-> "textarea", type |-> "", value |-> <<>>]
CheckBox == [tag |-> "input", type |-> "checkbox", value |-> <<>>]

\* The editor view once the serial monitor is open, in document order: the
\* view is built element by element.
EditorElements == <<CheckBox, TextArea, TextInput>>

\* The selector "textarea, input[type='text']" of line 131.
IsTextEntry(e) == e.tag = "textarea" \/ (e.tag = "input" /\ e.type = "text")

RECURSIVE MatchesFrom(_, _)
MatchesFrom(els, i) ==
    IF i > Len(els) THEN <<>>
    ELSE (IF IsTextEntry(els[i]) THEN <<i>> ELSE <<>>) \o MatchesFrom(els, i + 1)

\* A faulty variant of QuerySelectorAll: the selector matches every element.
QuerySelectorAllAny(els) == [i \in 1..Len(els) |-> i]

\* targetFrame.$$(selector): the matching elements in document order, each
\* handle being the element's index.
QuerySelectorAll(els) == MatchesFrom(els, 1)

\* A faulty variant of PickInput: the first match.
PickFirstInput(inputs) == inputs[1]

\* textInputs[textInputs.length - 1] (line 133)
PickInput(inputs) == inputs[Len(inputs)]

(***************************************************************************)
(* Inbound events.                                                         *)
(***************************************************************************)
Replacement == "U+FFFD"

\* The characters of the bytes the model's payloads use.
Chr(b) ==
    CASE b = 76 -> "L" [] b = 69 -> "E" [] b = 68 -> "D" [] b = 95 -> "_"
      [] b = 79 -> "O" [] b = 78 -> "N" [] b = 48 -> "0"
      [] OTHER -> Replacement

\* message.toString(): UTF-8 decoding of bytes that are ASCII or, when not
\* below 128, lone and so decoded to the replacement character (line 113).
Decode(bytes) ==
    [i \in 1..Len(bytes) |-> IF bytes[i] < 128 THEN Chr(bytes[i]) ELSE Replacement]

LedOn == <<76, 69, 68, 95, 79, 78>>
Payloads == {LedOn, <<48, 255>>}
Topics == {"sensor/command"}

\* A faulty variant of StartHandler: an event equal to an earlier one is dropped.
StartHandlerDedup(topic, payload) ==
    [topic |-> topic, msg |-> Decode(payload),
     pc |-> IF \E g \in DOMAIN handlers :
                  handlers[g].topic = topic /\ handlers[g].msg = Decode(payload)
            THEN "Dropped" ELSE "Received",
     seen |-> frames, frame |-> 0, queried |-> FALSE, nInputs |-> 0,
     target |-> 0, ops |-> <<"frames">>, threw |-> FALSE,
     raced |-> FALSE]

\* Lines 112-117: the handler run of one event, up to its first await.
\* page.frames() has been called: seen is what it returned.
StartHandler(topic, payload) ==
    [topic |-> topic, msg |-> Decode(payload), pc |-> "Received",
     seen |-> frames, frame |-> 0, queried |-> FALSE, nInputs |-> 0,
     target |-> 0, ops |-> <<"frames">>, threw |-> FALSE,
     raced |-> FALSE]

\* A faulty variant of Deliver: the handler echoes the event on the bus.
DeliverEcho ==
    /\ Running
    /\ Len(handlers) < MaxEvents
    /\ RoomFor(ticks)
    /\ \E topic \in Topics, payload \in Payloads :
           /\ handlers' = Append(handlers, StartHandler(topic, payload))
           /\ published' = Append(published,
                  [topic |-> <<topic>>, payload |-> Decode(payload)])
    /\ UNCHANGED <<argv, setup, proc, page, lastData, ticks, domVars, submitted>>

\* client.on("message"): the bus delivers an event.
Deliver ==
    /\ Running
    /\ Len(handlers) < MaxEvents
    /\ RoomFor(ticks)
    /\ \E topic \in Topics, payload \in Payloads :
           handlers' = Append(handlers, StartHandler(topic, payload))
    /\ UNCHANGED <<argv, setup, proc, pollVars, domVars, submitted>>

InFlight(h) == handlers[h].pc \notin {"Injected", "Dropped"}
Injecting(h) == handlers[h].pc \in {"Clicked", "Cleared", "Typed"}

\* The handler runs of the other events whose injection is under way when
\* run h acts on the document are marked.
Racing(h) ==
    [g \in DOMAIN handlers |->
        IF g /= h /\ Injecting(g) THEN [handlers[g] EXCEPT !.raced = TRUE]
        ELSE handlers[g]]

\* Lines 121-131: the frame is looked up among those page.frames() gave;
\* without one the handler logs and returns, with one it calls $$.
ResolveFrame(h) ==
    /\ Running
    /\ h \in DOMAIN handlers
    /\ handlers[h].pc = "Received"
    /\ LET f == FindEditorFrame(handlers[h].seen)
       IN  handlers' = [handlers EXCEPT ![h] =
               IF f = 0 THEN [@ EXCEPT !.pc = "Dropped"]
               ELSE [@ EXCEPT !.pc = "FrameResolved", !.frame = f,
                              !.ops = Append(@, "query")]]
    /\ UNCHANGED <<argv, setup, proc, pollVars, domVars, submitted>>

\* A faulty variant of QueryInputs: without an element the run starts over
\* from the frame lookup.
QueryInputsRetry(h) ==
    /\ Running
    /\ h \in DOMAIN handlers
    /\ handlers[h].pc = "FrameResolved"
    /\ LET inputs == QuerySelectorAll(elements)
       IN  handlers' = [handlers EXCEPT ![h] =
               IF \neg (Len(inputs) > 0)
               THEN [@ EXCEPT !.pc = "Received", !.queried = TRUE, !.nInputs = 0]
               ELSE [@ EXCEPT !.pc = "InputResolved", !.queried = TRUE,
                              !.nInputs = Len(inputs),
                              !.target = PickInput(inputs),
                              !.ops = Append(@, "click")]]
    /\ UNCHANGED <<argv, setup, proc, pollVars, domVars, submitted>>

\* Lines 131-134 and 143-145: $$ returns; with no element the handler logs
\* and ends, with some it picks one and calls click.
QueryInputs(h) ==
    /\ Running
    /\ h \in DOMAIN handlers
    /\ handlers[h].pc = "FrameResolved"
    /\ LET inputs == QuerySelectorAll(elements)
       IN  handlers' = [handlers EXCEPT ![h] =
               IF \neg (Len(inputs) > 0)
               THEN [@ EXCEPT !.pc = "Dropped", !.queried = TRUE, !.nInputs = 0]
               ELSE [@ EXCEPT !.pc = "InputResolved", !.queried = TRUE,
                              !.nInputs = Len(inputs),
                              !.target = PickInput(inputs),
                              !.ops = Append(@, "click")]]
    /\ UNCHANGED <<argv, setup, proc, pollVars, domVars, submitted>>

\* A click focuses the element; the third click of a row selects the line.
SelectsAll(count) == count >= 3

\* Lines 134-135: the triple click focuses the element and selects its
\* content; the handler calls keyboard.press("Backspace").
Click(h) ==
    /\ Running
    /\ h \in DOMAIN handlers
    /\ handlers[h].pc = "InputResolved"
    /\ focus' = handlers[h].target
    /\ selAll' = SelectsAll(ClickOptions.clickCount)
    /\ handlers' = [Racing(h) EXCEPT ![h].pc = "Clicked",
                                     ![h].ops = Append(@, "backspace")]
    /\ UNCHANGED <<argv, setup, proc, pollVars, frames, elements, submitted>>

\* What Backspace leaves of the focused element's content.
Erase(value, all) ==
    IF all \/ value = <<>> THEN <<>> ELSE SubSeq(value, 1, Len(value) - 1)

\* Lines 135-136: the key goes to the focused element; the handler calls
\* serialInput.type(msg).
Backspace(h) ==
    /\ Running
    /\ h \in DOMAIN handlers
    /\ handlers[h].pc = "Clicked"
    /\ elements' = IF focus = 0 THEN elements
                   ELSE [elements EXCEPT ![focus].value = Erase(@, selAll)]
    /\ selAll' = FALSE
    /\ handlers' = [Racing(h) EXCEPT ![h].pc = "Cleared",
                                     ![h].ops = Append(@, "type")]
    /\ UNCHANGED <<argv, setup, proc, pollVars, frames, focus, submitted>>

\* Lines 136-137: type focuses the element and sends the characters, which
\* replace a selection and otherwise follow the content; the handler calls
\* keyboard.press("Enter").
Type(h) ==
    /\ Running
    /\ h \in DOMAIN handlers
    /\ handlers[h].pc = "Cleared"
    /\ focus' = handlers[h].target
    /\ selAll' = FALSE
    /\ elements' = [elements EXCEPT ![handlers[h].target].value =
           IF selAll /\ focus = handlers[h].target /\ handlers[h].msg /= <<>>
           THEN handlers[h].msg ELSE @ \o handlers[h].msg]
    /\ handlers' = [Racing(h) EXCEPT ![h].pc = "Typed",
                                     ![h].ops = Append(@, "enter")]
    /\ UNCHANGED <<argv, setup, proc, pollVars, frames, submitted>>

\* A faulty variant of Enter: type is not awaited, so Enter may be pressed
\* before the payload is typed.
EnterEarly(h) ==
    /\ Running
    /\ h \in DOMAIN handlers
    /\ handlers[h].pc \in {"Cleared", "Typed"}
    /\ submitted' = Append(submitted,
           [by |-> h, on |-> focus,
            content |-> IF focus = 0 THEN <<>> ELSE elements[focus].value])
    /\ elements' = IF focus = 0 THEN elements
                   ELSE [elements EXCEPT ![focus].value = <<>>]
    /\ selAll' = FALSE
    /\ handlers' = [Racing(h) EXCEPT ![h].pc = "Injected"]
    /\ UNCHANGED <<argv, setup, proc, pollVars, frames, focus>>

\* Lines 137-140: Enter submits the content of the focused element, which
\* the serial monitor sends to the simulation and clears; the handler logs
\* and ends.
Enter(h) ==
    /\ Running
    /\ h \in DOMAIN handlers
    /\ handlers[h].pc = "Typed"
    /\ submitted' = Append(submitted,
           [by |-> h, on |-> focus,
            content |-> IF focus = 0 THEN <<>> ELSE elements[focus].value])
    /\ elements' = IF focus = 0 THEN elements
                   ELSE [elements EXCEPT ![focus].value = <<>>]
    /\ selAll' = FALSE
    /\ handlers' = [Racing(h) EXCEPT ![h].pc = "Injected"]
    /\ UNCHANGED <<argv, setup, proc, pollVars, frames, focus>>

\* A faulty variant of OnInjectError: the exception leaves the handler.
OnInjectErrorUncaught(p) == "crashed"

\* catch (err) of the handler (lines 146-148): log and go on.
OnInjectError(p) == p

\* The call the handler waits for throws: frame enumeration, $$, click,
\* Backspace, type or Enter.
InjectThrow(h) ==
    /\ Running
    /\ h \in DOMAIN handlers
    /\ InFlight(h)
    /\ handlers' = [handlers EXCEPT ![h].pc = "Dropped", ![h].threw = TRUE]
    /\ proc' = OnInjectError(proc)
    /\ UNCHANGED <<argv, setup, pollVars, domVars, submitted>>

\* The user opens the editor view: its frame appears, still empty.
OpenEditor ==
    /\ Running
    /\ frames = ClosedFrames
    /\ frames' = OpenFrames
    /\ UNCHANGED <<argv, setup, proc, pollVars, elements, focus, selAll, inVars>>

\* The editor view gains its next element.
AddElement ==
    /\ Running
    /\ frames = OpenFrames
    /\ Len(elements) < Len(EditorElements)
    /\ elements' = Append(elements, EditorElements[Len(elements) + 1])
    /\ UNCHANGED <<argv, setup, proc, pollVars, frames, focus, selAll, inVars>>

InboundStep ==
    \/ Deliver
    \/ \E h \in DOMAIN handlers : ResolveFrame(h)
    \/ \E h \in DOMAIN handlers : QueryInputs(h)
    \/ \E h \in DOMAIN handlers : Click(h)
    \/ \E h \in DOMAIN handlers : Backspace(h)
    \/ \E h \in DOMAIN handlers : Type(h)
    \/ \E h \in DOMAIN handlers : Enter(h)
    \/ \E h \in DOMAIN handlers : InjectThrow(h)

DomStep == OpenEditor \/ AddElement

InitCommon ==
    /\ proc = "boot"
    /\ setup = NotStarted
    /\ lastData = <<>>
    /\ ticks = <<>>
    /\ published = <<>>
    /\ frames = ClosedFrames
    /\ elements = <<>>
    /\ focus = 0
    /\ selAll = FALSE
    /\ handlers = <<>>
    /\ submitted = <<>>

InitPoll == InitCommon /\ argv \in ArgVectors /\ page \in RichPages

NextPoll == Startup \/ Launch \/ PollStep

\* The poll path alone, on every document of RichPages.
SpecPoll == InitPoll /\ [][NextPoll]_vars

\* The session before the document has loaded.
Init == InitCommon /\ argv \in ArgVectors /\ page = NoBody

Next == Startup \/ Launch \/ PollStep \/ PageChange \/ InboundStep \/ DomStep

\* The whole bridge.
Spec == Init /\ [][Next]_vars

NextInbound == Startup \/ Launch \/ InboundStep \/ DomStep

\* The inbound path alone.
SpecInbound == Init /\ [][NextInbound]_vars

\* What the browser does for run h: it answers the call the run waits for,
\* or the call throws.
BrowserAnswers(h) ==
    \/ ResolveFrame(h)
    \/ QueryInputs(h)
    \/ Click(h)
    \/ Backspace(h)
    \/ Type(h)
    \/ Enter(h)
    \/ InjectThrow(h)

\* The editor view as an event may find it: closed, or open and built up
\* to some element.
InitSettled ==
    /\ proc = "boot"
    /\ setup = NotStarted
    /\ argv \in ArgVectors
    /\ page = NoBody
    /\ lastData = <<>>
    /\ ticks = <<>>
    /\ published = <<>>
    /\ \/ frames = ClosedFrames /\ elements = <<>>
       \/ /\ frames = OpenFrames
          /\ elements \in {SubSeq(EditorElements, 1, n) : n \in 0..Len(EditorElements)}
    /\ focus = 0
    /\ selAll = FALSE
    /\ handlers = <<>>
    /\ submitted = <<>>

NextSettled == Startup \/ Launch \/ InboundStep

\* The inbound path on a document that no one else changes, when every
\* call a run awaits eventually returns or throws: no call to the browser
\* session stays pending for ever.
SpecSettledFair ==
    /\ InitSettled
    /\ [][NextSettled]_vars
    /\ \A h \in 1..MaxEvents : WF_vars(BrowserAnswers(h))

InitStartup == InitCommon /\ argv \in StartupArgs /\ page = NoBody

NextStartup == Startup \/ Launch \/ PollStep \/ PageChange \/ Deliver

\* Startup on every command line of StartupArgs, followed by the callbacks
\* it registers: the poll callbacks, and the handler runs up to their await.
SpecStartup == InitStartup /\ [][NextStartup]_vars

(***************************************************************************)
(* Properties.                                                             *)
(***************************************************************************)
DoneTicks == {t \in DOMAIN ticks : ticks[t].pc = "done"}

\* The step ends the callback t that was waiting with its text.
Compares(t) == ticks[t].pc = "resolved" /\ ticks'[t].pc = "done"

\* C1: a poll callback whose snapshot equals lastData when it is compared
\* visits no line, makes no publish call and leaves lastData as it is.
C1_EqualSnapshotIsIdle ==
    [][\A t \in DOMAIN ticks :
           (Compares(t) /\ ticks[t].text = lastData)
           => /\ lastData' = lastData
              /\ published' = published
              /\ ticks'[t].scanned = 0
              /\ ticks'[t].calls = <<>>]_vars

\* A callback has published a snapshot and a later one has met the same
\* non-empty snapshot again.
C1_Witness ==
    \E s \in DoneTicks, t \in DoneTicks :
        /\ s < t
        /\ ticks[s].calls /= <<>>
        /\ ticks[t].text = ticks[s].text
        /\ ticks[t].text = ticks[t].prev
        /\ ticks[t].calls = <<>>

\* Line k of a text, the empty line when the text has no such line.
LineAt(text, k) ==
    IF k \in 1..Len(SplitLines(text)) THEN SplitLines(text)[k] ELSE <<>>

\* C2: a callback publishes no line that stands unchanged, at the same
\* place, in the snapshot before it and was published from that snapshot.
C2_NoLinePublishedTwice ==
    \A t \in DoneTicks : \A j \in DOMAIN ticks[t].calls :
        ~ \E s \in DoneTicks :
            /\ s < t
            /\ ticks[s].text = ticks[t].prev
            /\ LineAt(ticks[s].text, ticks[t].calls[j].line)
                   = LineAt(ticks[t].text, ticks[t].calls[j].line)
            /\ \E i \in DOMAIN ticks[s].calls :
                   ticks[s].calls[i] = ticks[t].calls[j]

\* C3 as claimed: whenever Enter is pressed for an event on an element, the
\* element holds exactly the event's decoded payload.
C3_SubmitsExactlyThePayload ==
    \A i \in DOMAIN submitted :
        submitted[i].on /= 0
        => submitted[i].content = handlers[submitted[i].by].msg

\* C3 as amended: the same, for the events during whose injection (from
\* its triple click to its Enter) no other event's handler clicked, pressed
\* a key or typed.
C3_SubmitsThePayloadWhenAlone ==
    \A i \in DOMAIN submitted :
        (submitted[i].on /= 0 /\ ~handlers[submitted[i].by].raced)
        => submitted[i].content = handlers[submitted[i].by].msg

\* Two events were handled, and the second, injected undisturbed into the
\* text input that held earlier content, submitted its payload.
C3_Witness ==
    /\ Len(handlers) = 2
    /\ \E i \in DOMAIN submitted :
           /\ submitted[i].by = 2
           /\ submitted[i].on = Len(EditorElements)
           /\ ~handlers[2].raced
           /\ submitted[i].content = Decode(LedOn)

\* C4: no publish call of a callback comes from a line before the last
\* KeepLines lines of the callback's snapshot.
C4_OnlyTheLastTenLines ==
    \A t \in DoneTicks :
        ticks[t].calls /= <<>>
        => \A n \in {Len(SplitLines(ticks[t].text))} :
               \A j \in DOMAIN ticks[t].calls :
                   ticks[t].calls[j].line + KeepLines > n

\* A snapshot of more than KeepLines lines, whose first line would have
\* given a record, was parsed and gave records.
C4_Witness ==
    \E t \in DoneTicks :
        /\ Len(SplitLines(ticks[t].text)) > KeepLines
        /\ LineAt(ticks[t].text, 1) = LnOld
        /\ ticks[t].err = "none"
        /\ ticks[t].calls /= <<>>

\* The tokens of a line, read off the line: a token is a run of characters
\* that are no whitespace, bounded by whitespace or by the ends of the line.
TokenStarts(line) ==
    {i \in 1..Len(line) : ~IsWs(line[i]) /\ (i = 1 \/ IsWs(line[i - 1]))}

TokenEnd(line, i) ==
    CHOOSE j \in i..Len(line) :
        /\ \A k \in i..j : ~IsWs(line[k])
        /\ (j = Len(line) \/ IsWs(line[j + 1]))

FirstToken(line) ==
    LET i == CHOOSE k \in TokenStarts(line) : \A m \in TokenStarts(line) : k <= m
    IN  SubSeq(line, i, TokenEnd(line, i))

\* The characters of the line after its first token that are no whitespace.
RestInk(line) ==
    LET i == CHOOSE k \in TokenStarts(line) : \A m \in TokenStarts(line) : k <= m
    IN  SelectSeq(SubSeq(line, TokenEnd(line, i) + 1, Len(line)),
                  LAMBDA c : ~IsWs(c))

\* The payload is tokens tokens, each two neighbours one space apart.
SingleSpaced(payload, tokens) ==
    /\ payload /= <<>>
    /\ ~IsWs(payload[1])
    /\ ~IsWs(payload[Len(payload)])
    /\ \A k \in 1..Len(payload) : IsWs(payload[k]) => payload[k] = " "
    /\ \A k \in 1..(Len(payload) - 1) : ~(IsWs(payload[k]) /\ IsWs(payload[k + 1]))
    /\ Cardinality({k \in 1..Len(payload) : payload[k] = " "}) + 1 = tokens

WellFormed(line) == Cardinality(TokenStarts(line)) >= 2

Sensor == <<"s", "e", "n", "s", "o", "r", "/", "t", "e", "m", "p", "e", "r",
            "a", "t", "u", "r", "e">>

\* What C5 says of one publish call and the line it comes from.
RightRecord(call, line) ==
    /\ WellFormed(line)
    /\ call.topic = FirstToken(line)
    /\ call.topic /= <<>>
    /\ \A k \in DOMAIN call.topic : ~IsWs(call.topic[k])
    /\ SingleSpaced(call.payload, Cardinality(TokenStarts(line)) - 1)
    /\ SelectSeq(call.payload, LAMBDA c : ~IsWs(c)) = RestInk(line)

\* C5: each publish call has the first token of its line as topic and the
\* other tokens, one space apart, as payload; a callback whose calls all
\* return publishes every retained line of two tokens or more; and the
\* line "sensor/temperature 23.5 C" gives that topic with payload "23.5 C".
C5_TopicAndPayload ==
    \A t \in DoneTicks :
        (ticks[t].text /= <<>> /\ ticks[t].text /= ticks[t].prev)
        => \A lines \in {SplitLines(ticks[t].text)} :
            /\ \A j \in DOMAIN ticks[t].calls :
                   /\ ticks[t].calls[j].line \in DOMAIN lines
                   /\ RightRecord(ticks[t].calls[j], lines[ticks[t].calls[j].line])
            /\ ticks[t].err = "none"
               => \A k \in DOMAIN lines :
                      (k + KeepLines > Len(lines) /\ WellFormed(lines[k]))
                      => \E j \in DOMAIN ticks[t].calls : ticks[t].calls[j].line = k
            /\ (ticks[t].err = "none" /\ ticks[t].text = LnSensor)
               => ticks[t].calls =
                      << [topic |-> Sensor,
                          payload |-> <<"2", "3", ".", "5", " ", "C">>,
                          line |-> 1] >>

\* A line whose tokens are apart by two spaces and by a tab, with a space
\* at its end, was published.
C5_Witness ==
    \E t \in DoneTicks : \E j \in DOMAIN ticks[t].calls :
        /\ LineAt(ticks[t].text, ticks[t].calls[j].line) = LnB
        /\ ticks[t].calls[j].payload = <<"2", " ", "c">>

\* Some frame of those enumerated has an address with the editor substring.
SawEditor(h) == \E i \in DOMAIN handlers[h].seen : IsEditor(handlers[h].seen[i])

\* The browser calls of a whole injection, in order.
FullInjection == <<"frames", "query", "click", "backspace", "type", "enter">>

Pressed(h) == \E i \in DOMAIN submitted : submitted[i].by = h

\* The process has neither exited nor crashed since it started to run.
StaysUp == proc = "running" => proc' = "running"

\* C6: an event handled while no frame has the editor substring in its
\* address leads to no call but the frame enumeration, ends Dropped, and
\* the process runs on.
C6_NoEditorFrameNoInjection ==
    /\ [](\A h \in DOMAIN handlers :
             ~SawEditor(h)
             => /\ handlers[h].ops = <<"frames">>
                /\ handlers[h].pc \in {"Received", "Dropped"}
                /\ ~Pressed(h)
                /\ proc = "running")
    /\ [][\A h \in DOMAIN handlers :
             (~SawEditor(h) /\ handlers[h].pc = "Received"
              /\ handlers'[h].pc /= "Received")
             => /\ handlers'[h].pc = "Dropped"
                /\ UNCHANGED <<domVars, submitted, pollVars>>
                /\ StaysUp]_vars

\* An event found no editor frame and was dropped without an exception,
\* and an event delivered after it was injected.
C6_Witness ==
    /\ Len(handlers) = 2
    /\ ~SawEditor(1)
    /\ handlers[1].pc = "Dropped"
    /\ ~handlers[1].threw
    /\ handlers[2].pc = "Injected"
    /\ proc = "running"

\* C7: every delivery starts a handler run of its own, and what a run does
\* depends on what it finds and on nothing earlier events (or the poll
\* callbacks) left: it is dropped only when it finds no editor frame, finds
\* no input or meets an exception, and when it is injected it has made all
\* the calls of an injection and pressed Enter once.
C7_NoInboundDeduplication ==
    \A h \in DOMAIN handlers :
        /\ handlers[h].pc = "Dropped"
           => \/ handlers[h].threw
              \/ ~SawEditor(h)
              \/ (handlers[h].queried /\ handlers[h].nInputs = 0)
        /\ handlers[h].pc = "Injected"
           => /\ handlers[h].ops = FullInjection
              /\ handlers[h].queried
              /\ Cardinality({i \in DOMAIN submitted : submitted[i].by = h}) = 1

\* The same event was delivered twice and injected twice.
C7_Witness ==
    /\ Len(handlers) = 2
    /\ handlers[1].topic = handlers[2].topic
    /\ handlers[1].msg = handlers[2].msg
    /\ handlers[1].pc = "Injected"
    /\ handlers[2].pc = "Injected"
    /\ Len(submitted) = 2

\* The step in which the extraction of callback t throws.
ExtractionFails(t) == ticks[t].pc = "evaluate" /\ ticks'[t].pc = "failed"

\* C8: a callback whose extraction throws publishes nothing, leaves
\* lastData as it is and leaves the process running; and a callback that
\* resumes with a non-empty snapshot other than lastData makes lastData
\* that snapshot and, its calls all returning, publishes the snapshot's
\* records, whatever callbacks failed before it.
C8_FailedExtractionIsSkipped ==
    [][\A t \in DOMAIN ticks :
           /\ ExtractionFails(t)
              => /\ published' = published
                 /\ lastData' = lastData
                 /\ ticks'[t].calls = <<>>
                 /\ StaysUp
           /\ (Compares(t) /\ ticks[t].text /= <<>> /\ ticks[t].text /= lastData)
              => /\ lastData' = ticks[t].text
                 /\ ticks'[t].err = "none"
                    => published' = published \o Messages(PublishCalls(ticks[t].text))]_vars

\* The extraction of a callback threw, and the next callback published.
C8_Witness ==
    \E t \in DOMAIN ticks :
        /\ ticks[t].pc = "failed"
        /\ t + 1 \in DoneTicks
        /\ ticks[t + 1].err = "none"
        /\ ticks[t + 1].calls /= <<>>
        /\ published = Messages(ticks[t + 1].calls)

\* The step in which a call of run h throws.
InjectionFails(h) == ~handlers[h].threw /\ handlers'[h].threw

\* C9: when a call of a handler run throws, the run ends Dropped having
\* made no later call, the document is as it was, no run is started in its
\* place, and a dropped run never acts again; no exception of a callback or
\* of a handler run ends the process.
C9_InjectionErrorsAreLocal ==
    /\ [](\A h \in DOMAIN handlers : handlers[h].threw => handlers[h].pc = "Dropped")
    /\ [](proc /= "crashed")
    /\ [][StaysUp]_vars
    /\ [][\A h \in DOMAIN handlers :
             /\ InjectionFails(h)
                => /\ handlers'[h].pc = "Dropped"
                   /\ handlers'[h].ops = handlers[h].ops
                   /\ Len(handlers') = Len(handlers)
                   /\ UNCHANGED <<domVars, submitted>>
             /\ handlers[h].pc = "Dropped"
                => handlers'[h] = handlers[h]]_vars

\* The Enter of an event threw after its payload was typed, and an event
\* delivered after it was injected.
C9_Witness ==
    /\ Len(handlers) = 2
    /\ handlers[1].threw
    /\ handlers[1].ops = FullInjection
    /\ handlers[2].pc = "Injected"
    /\ proc = "running"

\* No element of the editor frame is a textarea or a text input.
NoTextEntry == \A i \in DOMAIN elements : ~IsTextEntry(elements[i])

\* C10: a run whose input lookup returns while the editor frame holds no
\* textarea and no text input ends Dropped with no click, key press or
\* typing, and never acts again.
C10_NoInputNoInjection ==
    /\ [][\A h \in DOMAIN handlers :
             (handlers[h].pc = "FrameResolved" /\ handlers'[h].pc /= "FrameResolved"
              /\ NoTextEntry)
             => /\ handlers'[h].pc = "Dropped"
                /\ handlers'[h].ops = <<"frames", "query">>
                /\ UNCHANGED <<domVars, submitted>>
                /\ Len(handlers') = Len(handlers)]_vars
    /\ [][\A h \in DOMAIN handlers :
             handlers[h].pc = "Dropped" => handlers'[h] = handlers[h]]_vars

\* A run looked for inputs in an editor frame that held only a checkbox,
\* and was dropped without an exception.
C10_Witness ==
    \E h \in DOMAIN handlers :
        /\ handlers[h].pc = "Dropped"
        /\ ~handlers[h].threw
        /\ handlers[h].queried
        /\ handlers[h].nInputs = 0
        /\ elements = <<CheckBox>>

\* C11: a process started without a URL ends exited with status 1 having
\* opened no broker connection, launched no browser, run no poll callback
\* and no handler, and a process without a URL never gets past startup; a
\* process started with the URL alone connects to localhost, port 1883.
C11_NoUrlExitsDefaultsApply ==
    /\ proc = "exited"
       => /\ NoUrl(argv)
          /\ setup = [NotStarted EXCEPT !.exit = <<1>>]
          /\ ticks = <<>> /\ handlers = <<>>
          /\ published = <<>> /\ submitted = <<>>
    /\ NoUrl(argv) => proc \in {"boot", "exited"}
    /\ proc \in {"launching", "running"}
       => /\ setup.exit = <<>>
          /\ Len(argv) = 1 => setup.broker = <<"localhost", "1883">>
          /\ Len(argv) = 2 => setup.broker = <<argv[2], "1883">>
          /\ Len(argv) = 3 => setup.broker = <<argv[2], argv[3]>>
    /\ (ticks /= <<>> \/ handlers /= <<>>) => setup.browser

\* The process was started with no argument and has exited with status 1.
C11_Witness ==
    /\ argv = <<>>
    /\ proc = "exited"
    /\ setup.exit = <<1>>

\* The callbacks that have started and not yet returned.
TicksInFlight == {t \in DOMAIN ticks : ticks[t].pc \in {"evaluate", "resolved"}}

AllCalls(t) == PublishCalls(ticks[t].text)

\* C13: when a publish call of a callback throws, lastData is the text of
\* the callback from that step on, the calls before the throwing one are
\* the only ones it published, and the next callback, when it extracts the
\* same text, publishes nothing and scans no line.
C13_ThrowingPublishIsNotRetried ==
    /\ [][\A t \in DOMAIN ticks :
             (ticks[t].pc = "resolved" /\ ticks'[t].err = "publish")
             => \A all \in {AllCalls(t)} :
                  /\ lastData' = ticks[t].text
                  /\ Len(ticks'[t].calls) < Len(all)
                  /\ ticks'[t].calls = SubSeq(all, 1, Len(ticks'[t].calls))
                  /\ published' = published \o Messages(ticks'[t].calls)]_vars
    /\ [](\A t \in DOMAIN ticks :
             (/\ ticks[t].err = "publish"
              /\ t + 1 \in DOMAIN ticks
              /\ ticks[t + 1].pc = "done"
              /\ ticks[t + 1].text = ticks[t].text)
             => /\ ticks[t + 1].calls = <<>>
                /\ ticks[t + 1].scanned = 0
                /\ ticks[t + 1].prev = ticks[t].text)

\* The second publish call of a callback threw after the first returned;
\* the next callback extracted the same text and published nothing.
C13_Witness ==
    /\ Len(ticks) >= 2
    /\ ticks[1].err = "publish"
    /\ Len(ticks[1].calls) = 1
    /\ Len(AllCalls(1)) > 2
    /\ ticks[2].pc = "done"
    /\ ticks[2].text = ticks[1].text
    /\ ticks[2].calls = <<>>
    /\ lastData = ticks[1].text
    /\ published = Messages(ticks[1].calls)

\* Callback t has returned, having extracted nothing or failed to extract.
SawNothing(t) ==
    \/ ticks[t].pc = "failed"
    \/ ticks[t].pc = "done" /\ ticks[t].text = <<>>

\* C14: a callback that extracted the empty text returns having published
\* nothing and left lastData alone; a text that comes back after callbacks
\* that saw nothing is not published again; lastData is empty or a
\* non-empty text that a callback has processed.
C14_EmptySnapshotIsNoChange ==
    /\ [][\A t \in DOMAIN ticks :
             (/\ ticks[t].pc = "resolved"
              /\ ticks[t].text = <<>>
              /\ ticks'[t].pc /= "resolved")
             => /\ ticks'[t].pc = "done"
                /\ ticks'[t].calls = <<>>
                /\ ticks'[t].scanned = 0
                /\ UNCHANGED <<lastData, published>>]_vars
    /\ [](\A s \in DOMAIN ticks : \A t \in DOMAIN ticks :
             (/\ s < t
              /\ ticks[s].pc = "done" /\ ticks[s].text /= <<>>
              /\ \A m \in (s + 1)..(t - 1) : SawNothing(m)
              /\ ticks[t].pc = "done" /\ ticks[t].text = ticks[s].text)
             => /\ ticks[t].calls = <<>>
                /\ ticks[t].scanned = 0
                /\ ticks[t].prev = ticks[s].text)
    /\ [](\/ lastData = <<>>
          \/ \E t \in DOMAIN ticks :
                 ticks[t].pc = "done" /\ ticks[t].text = lastData)

\* A text was published, the next callback extracted the empty text, and
\* the third extracted the first text again and published nothing.
C14_Witness ==
    /\ Len(ticks) = 3
    /\ ticks[1].pc = "done" /\ ticks[1].calls /= <<>>
    /\ ticks[2].pc = "done" /\ ticks[2].text = <<>>
    /\ ticks[3].pc = "done" /\ ticks[3].text = ticks[1].text
    /\ ticks[3].calls = <<>>
    /\ lastData = ticks[1].text
    /\ published = Messages(ticks[1].calls)

\* C15: the publish calls of a callback come from well-formed retained
\* lines, one call per line in the order of the lines, each the record of
\* its line; when no call throws, every well-formed retained line has its
\* call, whatever blank or single-token lines stand before it; when a call
\* throws, every well-formed retained line scanned before it has its call.
C15_RecordsOfWellFormedLinesInOrder ==
    /\ [][\A t \in DOMAIN ticks :
             (ticks[t].pc = "resolved" /\ ticks'[t].pc = "done")
             => published' = published \o Messages(ticks'[t].calls)]_vars
    /\ [](\A t \in DoneTicks :
        (ticks[t].text /= <<>> /\ ticks[t].text /= ticks[t].prev)
        => \A lines \in {SplitLines(ticks[t].text)} :
           \A calls \in {ticks[t].calls} :
           \A first \in {IF Len(lines) > KeepLines
                         THEN Len(lines) - KeepLines + 1 ELSE 1} :
            /\ \A j \in DOMAIN calls :
                   /\ calls[j].line \in first..Len(lines)
                   /\ RightRecord(calls[j], lines[calls[j].line])
                   /\ \A i \in 1..(j - 1) : calls[i].line < calls[j].line
            /\ \A k \in first..Len(lines) :
                   (/\ WellFormed(lines[k])
                    /\ ticks[t].err = "publish" => k - first + 1 < ticks[t].scanned)
                   => \E j \in DOMAIN calls : calls[j].line = k)

\* A snapshot of a single-token line followed by a well-formed one was
\* processed: the second line alone was published.
C15_Witness ==
    \E t \in DoneTicks :
        /\ ticks[t].text = JoinLines(<<LnBad, LnA>>, LF)
        /\ ticks[t].err = "none"
        /\ ticks[t].calls = << [topic |-> <<"a">>, payload |-> <<"1">>, line |-> 2] >>

\* The positions of a run from its click on: the click is pending, the
\* click is done, Backspace is done, the payload is typed, Enter is done.
InjectionStages == <<"InputResolved", "Clicked", "Cleared", "Typed", "Injected">>

Stage(pc) ==
    IF \E i \in DOMAIN InjectionStages : InjectionStages[i] = pc
    THEN CHOOSE i \in DOMAIN InjectionStages : InjectionStages[i] = pc
    ELSE 0

\* The value ends with the message.
EndsWith(value, msg) ==
    /\ Len(value) >= Len(msg)
    /\ SubSeq(value, Len(value) - Len(msg) + 1, Len(value)) = msg

\* C16: the browser calls of a run are a prefix of frames, $$, click,
\* Backspace, type, Enter, so each is made at most once and in that order; a
\* call is made only in a step in which the call before it returned without
\* throwing; the payload is typed after Backspace returned, and Enter is
\* pressed only by a run whose payload has been typed.
C16_InjectionStepsInOrder ==
    /\ [](\A h \in DOMAIN handlers :
             /\ handlers[h].ops = SubSeq(FullInjection, 1, Len(handlers[h].ops))
             /\ Stage(handlers[h].pc) > 0
                => /\ ~handlers[h].threw
                   /\ handlers[h].ops =
                          SubSeq(FullInjection, 1,
                                 IF handlers[h].pc = "Injected" THEN 6
                                 ELSE Stage(handlers[h].pc) + 2)
             /\ Pressed(h)
                => /\ handlers[h].pc = "Injected"
                   /\ Cardinality({i \in DOMAIN submitted : submitted[i].by = h}) = 1)
    /\ [][\A h \in DOMAIN handlers :
             /\ handlers'[h].ops /= handlers[h].ops
                => /\ ~handlers'[h].threw
                   /\ handlers'[h].ops =
                          SubSeq(FullInjection, 1, Len(handlers[h].ops) + 1)
             /\ (Stage(handlers[h].pc) > 0 /\ handlers'[h].pc /= handlers[h].pc)
                => \/ Stage(handlers'[h].pc) = Stage(handlers[h].pc) + 1
                   \/ handlers'[h].pc = "Dropped" /\ handlers'[h].threw
             /\ (handlers'[h].pc = "Typed" /\ handlers[h].pc /= "Typed")
                => /\ handlers[h].pc = "Cleared"
                   /\ EndsWith(elements'[handlers[h].target].value, handlers[h].msg)]_vars
    /\ [][submitted' /= submitted
          => \E h \in DOMAIN handlers :
                 /\ handlers[h].pc = "Typed"
                 /\ handlers'[h].pc = "Injected"
                 /\ Len(submitted') = Len(submitted) + 1
                 /\ submitted'[Len(submitted')].by = h]_vars

\* One event was injected in four steps and its payload submitted; the
\* type call of another threw after its Backspace, and no Enter followed.
C16_Witness ==
    /\ Len(handlers) = 2
    /\ handlers[1].pc = "Injected"
    /\ handlers[1].ops = FullInjection
    /\ submitted = << [by |-> 1, on |-> handlers[1].target,
                       content |-> handlers[1].msg] >>
    /\ handlers[2].threw
    /\ handlers[2].ops = SubSeq(FullInjection, 1, 5)
    /\ ~Pressed(2)

\* Element i is the last textarea or text input of the document.
LastTextEntry(els, i) ==
    /\ i \in DOMAIN els
    /\ IsTextEntry(els[i])
    /\ \A j \in (i + 1)..Len(els) : ~IsTextEntry(els[j])

\* The elements other than i are as they were.
OthersUntouched(i) ==
    /\ Len(elements') = Len(elements)
    /\ \A j \in DOMAIN elements : j /= i => elements'[j] = elements[j]

\* C17: the element a run picks when its lookup returns is the last
\* textarea or text input of the editor frame; the run keeps that element,
\* its click focuses that element and changes no content, and its typing
\* goes into that element and changes no other.
C17_LastTextEntryIsTheTarget ==
    [][\A h \in DOMAIN handlers :
          /\ (handlers[h].pc = "FrameResolved" /\ handlers'[h].pc = "InputResolved")
             => /\ LastTextEntry(elements, handlers'[h].target)
                /\ handlers'[h].nInputs =
                       Cardinality({i \in DOMAIN elements : IsTextEntry(elements[i])})
          /\ (Stage(handlers[h].pc) > 0 /\ Stage(handlers'[h].pc) > 0)
             => handlers'[h].target = handlers[h].target
          /\ (handlers[h].pc = "InputResolved" /\ handlers'[h].pc = "Clicked")
             => /\ focus' = handlers[h].target
                /\ elements' = elements
          /\ (handlers[h].pc = "Cleared" /\ handlers'[h].pc = "Typed")
             => /\ focus' = handlers[h].target
                /\ OthersUntouched(handlers[h].target)
                /\ EndsWith(elements'[handlers[h].target].value, handlers[h].msg)]_vars

\* The editor frame held a textarea and, after it, a text input when a run
\* looked for inputs: the run typed its payload into the text input and
\* the textarea is as it was.
C17_Witness ==
    \E h \in DOMAIN handlers :
        /\ handlers[h].pc = "Typed"
        /\ handlers[h].nInputs = 2
        /\ handlers[h].target = 3
        /\ elements[3].value = handlers[h].msg
        /\ elements[2] = TextArea

\* The state of the per-event machine a position of a run stands for: the
\* steps of an injection under way are steps within InputResolved.
Machine == <<"Received", "FrameResolved", "InputResolved", "Injected">>

MachineState(pc) ==
    IF pc \in {"Clicked", "Cleared", "Typed"} THEN "InputResolved" ELSE pc

Rank(pc) ==
    IF MachineState(pc) = "Dropped" THEN 0
    ELSE CHOOSE i \in DOMAIN Machine : Machine[i] = MachineState(pc)

Terminal(pc) == pc \in {"Injected", "Dropped"}

\* C18: a run starts Received; each of its steps keeps its machine state,
\* moves it to the next state of Received, FrameResolved, InputResolved,
\* Injected, or leaves a state that is not terminal for Dropped; Injected
\* and Dropped are never left; and every run ends Injected or Dropped.
C18_EveryEventEndsInjectedOrDropped ==
    /\ [][/\ \A h \in DOMAIN handlers :
                /\ h \in DOMAIN handlers'
                /\ \/ Rank(handlers'[h].pc) = Rank(handlers[h].pc)
                   \/ /\ Rank(handlers[h].pc) > 0
                      /\ Rank(handlers'[h].pc) = Rank(handlers[h].pc) + 1
                   \/ /\ ~Terminal(handlers[h].pc)
                      /\ handlers'[h].pc = "Dropped"
                /\ Terminal(handlers[h].pc) => handlers'[h] = handlers[h]
          /\ \A h \in DOMAIN handlers' \ DOMAIN handlers :
                handlers'[h].pc = "Received"]_vars
    /\ \A h \in 1..MaxEvents :
           (h \in DOMAIN handlers)
               ~> (h \in DOMAIN handlers /\ Terminal(handlers[h].pc))

\* Two events have ended: the click of the first threw and it was Dropped,
\* the second was Injected.
C18_Witness ==
    /\ Len(handlers) = 2
    /\ handlers[1].pc = "Dropped"
    /\ handlers[1].ops = <<"frames", "query", "click">>
    /\ handlers[2].pc = "Injected"
    /\ Pressed(2)

\* The messages of the first n callbacks, callback after callback.
RECURSIVE PublishedBy(_)
PublishedBy(n) ==
    IF n = 0 THEN <<>> ELSE PublishedBy(n - 1) \o Messages(ticks[n].calls)

\* Callback t goes from holding its text to its end in this step.
Finishes(t) == ticks[t].pc = "resolved" /\ ticks'[t].pc = "done"

C20_InboundLeavesLastDataAlone ==
    /\ [][(handlers' /= handlers \/ submitted' /= submitted
           \/ <<frames, elements, focus, selAll>>' /= <<frames, elements, focus, selAll>>)
          => UNCHANGED <<lastData, published, ticks>>]_vars
    /\ [][lastData' /= lastData
          => /\ handlers' = handlers
             /\ \E t \in DOMAIN ticks :
                    /\ Finishes(t)
                    /\ ticks[t].text /= <<>>
                    /\ ticks[t].text /= lastData
                    /\ lastData' = ticks[t].text]_vars

\* A callback has published its text, and an event has been injected:
\* lastData is the callback's text and the bus holds the callback's
\* messages only.
C20_Witness ==
    /\ Len(ticks) = 1
    /\ ticks[1].pc = "done"
    /\ ticks[1].calls /= <<>>
    /\ Len(handlers) = 1
    /\ handlers[1].pc = "Injected"
    /\ lastData = ticks[1].text
    /\ published = Messages(ticks[1].calls)

====
